---- MODULE Spec2Model ----
(***************************************************************************)
(* Verification model of the sidebar store modules `directLinked` and      *)
(* `session` (src/sidebar/store/modules) and of the annotator's            *)
(* NotebookModal component.                                                *)
(*                                                                         *)
(* JavaScript values are encoded as follows: strings are TLA+ strings,     *)
(* `undefined` and `null` are the sentinels Undefined and Null, booleans   *)
(* are TLA+ booleans, and an object is a function from its own property    *)
(* names to values (a property that is absent reads as Undefined).         *)
(***************************************************************************)
EXTENDS Integers, Sequences, FiniteSets, TLC

VARIABLES
  settings,      \* the `settings` argument the store modules were created with
  directLinked,  \* state of the directLinked module
  session,       \* state of the session module
  lastAction,    \* the action most recently dispatched to the store
  nextRef,       \* number of profile objects allocated so far (object identity)
  \* NotebookModal
  phase,                          \* "mounted" or "destroyed"
  isHidden,                       \* the `isHidden` state hook (latest value set)
  renderedIsHidden,               \* `isHidden` as seen by the last render
  renderDirty,                    \* a re-render of the component is enqueued
  pendingEffects,                 \* effects (1, 2, 3 in hook order) scheduled but not run
  effectsRun,                     \* effects that have run (their cleanup is registered)
  originalDocumentOverflowStyle,  \* `.current` of the ref
  emitterRef,                     \* `.current` of the ref: Null or the emitter
  subscribed,                     \* the emitter's 'openNotebook' subscription is live
  bodyOverflow,                   \* document.body.style.overflow
  pageOverflow,                   \* document.body.style.overflow when the modal was mounted
  bus                             \* events published on the event bus, oldest first

storeVars == <<settings, directLinked, session, lastAction, nextRef>>

notebookVars ==
  <<phase, isHidden, renderedIsHidden, renderDirty, pendingEffects, effectsRun,
    originalDocumentOverflowStyle, emitterRef, subscribed, bodyOverflow,
    pageOverflow, bus>>

\* ---------------------------------------------------------------- bounds
MaxUpdates == 3
MaxEvents == 4

\* ------------------------------------------------------- JavaScript values
Undefined == "<undefined>"
Null == "<null>"
UndefinedObject == [k \in {"<undefined>"} |-> TRUE]
EmptyObject == [k \in {} |-> TRUE]

GroupIds == {"g1", "g2"}
AnnotationIds == {"a1", "a2"}
AuthDomains == {"hypothes.is", "localhost"}
UserIds == {"acct:a@hypothes.is", "acct:b@localhost"}
FeatureNames == {"f1", "f2"}

\* obj[key]
Get(obj, key) == IF key \in DOMAIN obj THEN obj[key] ELSE Undefined

\* obj?.key
OptionalGet(obj, key) == IF obj = UndefinedObject THEN Undefined ELSE Get(obj, key)

\* !!v for the strings, null and undefined
Truthy(v) == v \notin {Undefined, Null, ""}

\* a || b
Or(a, b) == IF Truthy(a) THEN a ELSE b

\* a ?? b
Coalesce(a, b) == IF a \in {Undefined, Null} THEN b ELSE a

\* { ...a, ...b }
Spread(a, b) ==
  [k \in DOMAIN a \cup DOMAIN b |-> IF k \in DOMAIN b THEN b[k] ELSE a[k]]

\* Objects with the given keys, each key absent or bound to one of `values`.
ObjectsOver(keys, values) ==
  UNION {[ks -> values] : ks \in SUBSET keys}

\* ------------------------------------------------------------ create-store
\* makeAction(reducers, type, payload): `{ type, ...payload }`
makeAction(type, payload) == Spread([type |-> type], payload)

\* The reducer createStoreModule builds from a module's `reducers` map:
\* the changes returned by the matching reducer are merged over the state.
createReducer(state, changes) == Spread(state, changes)

NoChanges == EmptyObject
InitAction == [type |-> "@@INIT"]

\* ===================================================== direct-linked.js
\* Variant: the settings are copied without the `|| null` default.
directLinkedInitialState_NoDefault(s) ==
  [directLinkedGroupId |-> Get(s, "group"),
   directLinkedAnnotationId |-> Get(s, "annotations"),
   directLinkedGroupFetchFailed |-> FALSE]

directLinkedInitialState(s) ==
  [directLinkedGroupId |-> Or(Get(s, "group"), Null),
   directLinkedAnnotationId |-> Or(Get(s, "annotations"), Null),
   directLinkedGroupFetchFailed |-> FALSE]

\* Variant: the reducer ignores the action's payload.
UPDATE_DIRECT_LINKED_GROUP_FETCH_FAILED_AlwaysTrue(state, action) ==
  [directLinkedGroupFetchFailed |-> TRUE]

UPDATE_DIRECT_LINKED_GROUP_FETCH_FAILED(state, action) ==
  [directLinkedGroupFetchFailed |-> action.directLinkedGroupFetchFailed]

UPDATE_DIRECT_LINKED_GROUP_ID(state, action) ==
  [directLinkedGroupId |-> action.directLinkedGroupId]

UPDATE_DIRECT_LINKED_ANNOTATION_ID(state, action) ==
  [directLinkedAnnotationId |-> action.directLinkedAnnotationId]

\* Variant: clearing the IDs also clears the fetch-failed flag.
CLEAR_DIRECT_LINKED_IDS_ResetsFailed ==
  [directLinkedAnnotationId |-> Null,
   directLinkedGroupId |-> Null,
   directLinkedGroupFetchFailed |-> FALSE]

CLEAR_DIRECT_LINKED_IDS ==
  [directLinkedAnnotationId |-> Null,
   directLinkedGroupId |-> Null]

\* Variant: clearing the selection leaves the fetch-failed flag alone.
CLEAR_SELECTION_KeepsFailed ==
  [directLinkedAnnotationId |-> Null,
   directLinkedGroupId |-> Null]

CLEAR_SELECTION ==
  [directLinkedAnnotationId |-> Null,
   directLinkedGroupId |-> Null,
   directLinkedGroupFetchFailed |-> FALSE]

directLinkedReducers(state, action) ==
  CASE action.type = "UPDATE_DIRECT_LINKED_GROUP_FETCH_FAILED" ->
         UPDATE_DIRECT_LINKED_GROUP_FETCH_FAILED(state, action)
    [] action.type = "UPDATE_DIRECT_LINKED_GROUP_ID" ->
         UPDATE_DIRECT_LINKED_GROUP_ID(state, action)
    [] action.type = "UPDATE_DIRECT_LINKED_ANNOTATION_ID" ->
         UPDATE_DIRECT_LINKED_ANNOTATION_ID(state, action)
    [] action.type = "CLEAR_DIRECT_LINKED_IDS" -> CLEAR_DIRECT_LINKED_IDS
    [] action.type = "CLEAR_SELECTION" -> CLEAR_SELECTION
    [] OTHER -> NoChanges

\* selectors
directLinkedAnnotationId(state) == state.directLinkedAnnotationId
directLinkedGroupId(state) == state.directLinkedGroupId
directLinkedGroupFetchFailed(state) == state.directLinkedGroupFetchFailed

\* store.dispatch(action) on a store holding the directLinked module
DispatchDirectLinked(action) ==
  /\ directLinked' =
       createReducer(directLinked, directLinkedReducers(directLinked, action))
  /\ UNCHANGED <<settings, session, nextRef, notebookVars>>

setDirectLinkedGroupFetchFailed ==
  /\ lastAction' = makeAction("UPDATE_DIRECT_LINKED_GROUP_FETCH_FAILED",
                            [directLinkedGroupFetchFailed |-> TRUE])
  /\ DispatchDirectLinked(lastAction')

clearDirectLinkedGroupFetchFailed ==
  /\ lastAction' = makeAction("UPDATE_DIRECT_LINKED_GROUP_FETCH_FAILED",
                            [directLinkedGroupFetchFailed |-> FALSE])
  /\ DispatchDirectLinked(lastAction')

setDirectLinkedGroupId ==
  \E groupId \in GroupIds :
    /\ lastAction' = makeAction("UPDATE_DIRECT_LINKED_GROUP_ID",
                              [directLinkedGroupId |-> groupId])
    /\ DispatchDirectLinked(lastAction')

setDirectLinkedAnnotationId ==
  \E annId \in AnnotationIds :
    /\ lastAction' = makeAction("UPDATE_DIRECT_LINKED_ANNOTATION_ID",
                              [directLinkedAnnotationId |-> annId])
    /\ DispatchDirectLinked(lastAction')

clearDirectLinkedIds ==
  /\ lastAction' = makeAction("CLEAR_DIRECT_LINKED_IDS", EmptyObject)
  /\ DispatchDirectLinked(lastAction')

\* `clearSelection()` of the selection module, seen by the directLinked module
clearSelection ==
  /\ lastAction' = makeAction("CLEAR_SELECTION", EmptyObject)
  /\ DispatchDirectLinked(lastAction')

\* The settings the sidebar can be configured with: `group` and `annotations`
\* are each absent, null, empty or an ID.
DirectLinkedSettings ==
  {Spread(g, a) : g \in ObjectsOver({"group"}, {Null, ""} \cup GroupIds),
                  a \in ObjectsOver({"annotations"}, {Null, ""} \cup AnnotationIds)}

\* =========================================================== session.js
\* Profile objects carry a `ref` that stands for the object's identity
\* (what `===` compares); the remaining fields are the object's properties.
ProfileFields == {"features", "preferences", "userid", "user_info"}

initialProfile ==
  [ref |-> 0, features |-> EmptyObject, preferences |-> EmptyObject,
   userid |-> Null]

\* The properties of an object, without its identity.
Props(obj) == [k \in DOMAIN obj \ {"ref"} |-> obj[k]]

\* A newly allocated object `{ ...props }`.
NewObject(ref, props) == Spread([ref |-> ref], Props(props))

sessionInitialState(s) ==
  [defaultAuthority |-> Coalesce(OptionalGet(s, "authDomain"), ""),
   profile |-> initialProfile]

\* Variant: the new profile is merged over the previous one.
UPDATE_PROFILE_Merge(state, action, ref) ==
  [profile |-> NewObject(ref, Spread(Props(state.profile), action.profile))]

\* Variant: the reducer rebuilds the state without the settings.
UPDATE_PROFILE_ResetsAuthority(state, action, ref) ==
  [defaultAuthority |-> "",
   profile |-> NewObject(ref, action.profile)]

UPDATE_PROFILE(state, action, ref) ==
  [profile |-> NewObject(ref, action.profile)]

sessionReducers(state, action, ref) ==
  CASE action.type = "UPDATE_PROFILE" -> UPDATE_PROFILE(state, action, ref)
    [] OTHER -> NoChanges

\* selectors
defaultAuthority(state) == state.defaultAuthority
\* Variant: `!== undefined` in place of `!== null`.
isLoggedIn_NotUndefined(state) == state.profile.userid # Undefined
isLoggedIn(state) == state.profile.userid # Null
\* Variant: `feature in features` in place of `!!features[feature]`.
isFeatureEnabled_Present(state, feature) ==
  feature \in DOMAIN state.profile.features
\* `!!features[feature]`: an absent flag reads as undefined, which is falsy
isFeatureEnabled(state, feature) ==
  LET features == state.profile.features
  IN  feature \in DOMAIN features /\ features[feature] = TRUE
\* Variant: the profiles are compared by contents.
hasFetchedProfile_ByContents(state) ==
  Props(state.profile) # Props(initialProfile)
hasFetchedProfile(state) == state.profile.ref # initialProfile.ref
profile(state) == state.profile

\* store.dispatch(action) on a store holding the session module
DispatchSession(action) ==
  /\ session' = createReducer(session, sessionReducers(session, action, nextRef))
  /\ nextRef' = IF action.type = "UPDATE_PROFILE" THEN nextRef + 1 ELSE nextRef
  /\ UNCHANGED <<settings, directLinked, notebookVars>>

\* Profiles as the `/api/profile` endpoint returns them, and the dummy one.
FeatureMaps == ObjectsOver(FeatureNames, BOOLEAN)
Preferences == {EmptyObject, [show_sidebar_tutorial |-> TRUE]}
Profiles ==
  {Spread([features |-> f, preferences |-> p, userid |-> u], i) :
     f \in FeatureMaps, p \in Preferences, u \in {Null} \cup UserIds,
     i \in ObjectsOver({"user_info"}, {"Jim"})}

updateProfile ==
  /\ nextRef <= MaxUpdates
  /\ \E p \in Profiles :
       /\ lastAction' = makeAction("UPDATE_PROFILE", [profile |-> p])
       /\ DispatchSession(lastAction')

\* An action of another module (here the selection module's CLEAR_SELECTION),
\* for which the session module has no reducer.
otherAction ==
  /\ lastAction' = makeAction("CLEAR_SELECTION", EmptyObject)
  /\ DispatchSession(lastAction')

SessionSettings ==
  {UndefinedObject} \cup ObjectsOver({"authDomain"}, {Null, ""} \cup AuthDomains)

\* ======================================================== NotebookModal
OverflowValues == {"", "hidden", "scroll", "auto"}

\* First effect (deps []): the value stored in originalDocumentOverflowStyle.
storeOriginalOverflow(overflow) == overflow

\* Variant: closing the modal clears the overflow style.
overflowEffect_ResetsEmpty(hidden, original) == IF hidden THEN "" ELSE "hidden"

\* Second effect (deps [isHidden]): the value written to body.style.overflow.
overflowEffect(hidden, original) == IF hidden THEN original ELSE "hidden"

\* The component as first rendered: `useState(true)`, `useRef('')`,
\* `useRef(null)`, all three effects scheduled.
NotebookModal(overflow) ==
  /\ phase = "mounted"
  /\ isHidden = TRUE
  /\ renderedIsHidden = TRUE
  /\ renderDirty = FALSE
  /\ pendingEffects = {1, 2, 3}
  /\ effectsRun = {}
  /\ originalDocumentOverflowStyle = ""
  /\ emitterRef = Null
  /\ subscribed = FALSE
  /\ bodyOverflow = overflow
  /\ pageOverflow = overflow
  /\ bus = <<>>

\* Running the scheduled effects in hook order.
OriginalAfterEffects ==
  IF 1 \in pendingEffects
  THEN storeOriginalOverflow(bodyOverflow)
  ELSE originalDocumentOverflowStyle

RunPendingEffects ==
  /\ originalDocumentOverflowStyle' = OriginalAfterEffects
  /\ bodyOverflow' =
       IF 2 \in pendingEffects
       THEN overflowEffect(renderedIsHidden, OriginalAfterEffects)
       ELSE bodyOverflow
  /\ emitterRef' = IF 3 \in pendingEffects THEN "emitter" ELSE emitterRef
  /\ subscribed' = IF 3 \in pendingEffects THEN TRUE ELSE subscribed
  /\ effectsRun' = effectsRun \cup pendingEffects

\* The framework runs the scheduled effects after the browser has painted.
flushEffects ==
  /\ phase = "mounted"
  /\ pendingEffects # {}
  /\ RunPendingEffects
  /\ pendingEffects' = {}
  /\ UNCHANGED <<phase, isHidden, renderedIsHidden, renderDirty, pageOverflow, bus>>
  /\ UNCHANGED storeVars

\* The framework re-renders the component: effects still pending are run
\* first, then the second effect is scheduled if `isHidden` changed since
\* the previous render.
render ==
  /\ phase = "mounted"
  /\ renderDirty
  /\ RunPendingEffects
  /\ renderedIsHidden' = isHidden
  /\ pendingEffects' = IF isHidden # renderedIsHidden THEN {2} ELSE {}
  /\ renderDirty' = FALSE
  /\ UNCHANGED <<phase, isHidden, pageOverflow, bus>>
  /\ UNCHANGED storeVars

\* setIsHidden(value): a re-render is enqueued only when the value changes.
setIsHidden(value) ==
  /\ isHidden' = value
  /\ renderDirty' = (renderDirty \/ isHidden # value)

\* An 'openNotebook' event is published on the event bus.
openNotebook ==
  /\ Len(bus) < MaxEvents
  /\ bus' = Append(bus, "openNotebook")
  /\ IF subscribed
     THEN setIsHidden(FALSE)
     ELSE UNCHANGED <<isHidden, renderDirty>>
  /\ UNCHANGED <<phase, renderedIsHidden, pendingEffects, effectsRun,
                 originalDocumentOverflowStyle, emitterRef, subscribed,
                 bodyOverflow, pageOverflow>>
  /\ UNCHANGED storeVars

\* The close button is clicked.
onClose ==
  /\ phase = "mounted"
  /\ emitterRef # Null => Len(bus) < MaxEvents
  /\ setIsHidden(TRUE)
  /\ bus' = IF emitterRef # Null THEN Append(bus, "closeNotebook") ELSE bus
  /\ UNCHANGED <<phase, renderedIsHidden, pendingEffects, effectsRun,
                 originalDocumentOverflowStyle, emitterRef, subscribed,
                 bodyOverflow, pageOverflow>>
  /\ UNCHANGED storeVars

\* Variant: the first effect returns no cleanup.
destroy_NoReset ==
  /\ phase = "mounted"
  /\ phase' = "destroyed"
  /\ subscribed' = FALSE
  /\ pendingEffects' = {}
  /\ renderDirty' = FALSE
  /\ UNCHANGED <<isHidden, renderedIsHidden, effectsRun, bodyOverflow,
                 originalDocumentOverflowStyle, emitterRef, pageOverflow, bus>>
  /\ UNCHANGED storeVars

\* The component is unmounted: the cleanups of the effects that have run are
\* called, and effects still scheduled are dropped.
destroy ==
  /\ phase = "mounted"
  /\ phase' = "destroyed"
  /\ bodyOverflow' =
       IF 1 \in effectsRun THEN originalDocumentOverflowStyle ELSE bodyOverflow
  /\ subscribed' = FALSE
  /\ pendingEffects' = {}
  /\ renderDirty' = FALSE
  /\ UNCHANGED <<isHidden, renderedIsHidden, effectsRun,
                 originalDocumentOverflowStyle, emitterRef, pageOverflow, bus>>
  /\ UNCHANGED storeVars

\* ======================================================= specifications
vars == <<storeVars, notebookVars>>

InitDirectLinked ==
  /\ settings \in DirectLinkedSettings
  /\ directLinked = directLinkedInitialState(settings)
  /\ session = sessionInitialState(UndefinedObject)
  /\ lastAction = InitAction
  /\ nextRef = 1
  /\ NotebookModal("")

NextDirectLinked ==
  \/ setDirectLinkedGroupFetchFailed
  \/ clearDirectLinkedGroupFetchFailed
  \/ setDirectLinkedGroupId
  \/ setDirectLinkedAnnotationId
  \/ clearDirectLinkedIds
  \/ clearSelection

SpecDirectLinked == InitDirectLinked /\ [][NextDirectLinked]_vars

InitSession ==
  /\ settings \in SessionSettings
  /\ session = sessionInitialState(settings)
  /\ directLinked = directLinkedInitialState(EmptyObject)
  /\ lastAction = InitAction
  /\ nextRef = 1
  /\ NotebookModal("")

NextSession ==
  \/ updateProfile
  \/ otherAction

SpecSession == InitSession /\ [][NextSession]_vars

InitNotebook ==
  /\ \E overflow \in OverflowValues : NotebookModal(overflow)
  /\ settings = EmptyObject
  /\ directLinked = directLinkedInitialState(settings)
  /\ session = sessionInitialState(settings)
  /\ lastAction = InitAction
  /\ nextRef = 1

NextNotebook ==
  \/ flushEffects
  \/ render
  \/ openNotebook
  \/ onClose
  \/ destroy

SpecNotebook == InitNotebook /\ [][NextNotebook]_vars

\* ================================================================ claims

\* C1: whenever CLEAR_SELECTION was the action handled last, the direct link
\* is consumed: both IDs are null and the fetch-failed flag is false.
C1_ClearSelectionConsumes ==
  lastAction.type = "CLEAR_SELECTION" =>
    /\ directLinkedGroupId(directLinked) = Null
    /\ directLinkedAnnotationId(directLinked) = Null
    /\ directLinkedGroupFetchFailed(directLinked) = FALSE

C1_Witness ==
  /\ lastAction.type = "CLEAR_SELECTION"
  /\ Get(settings, "group") \in GroupIds
  /\ Get(settings, "annotations") \in AnnotationIds
  /\ directLinkedGroupId(directLinked) = Null
  /\ directLinkedAnnotationId(directLinked) = Null

\* C2: a clearDirectLinkedIds step sets both IDs to null and leaves the
\* fetch-failed flag as it was before the step.
C2_ClearIdsKeepsFailed ==
  [][clearDirectLinkedIds =>
       /\ directLinkedGroupId(directLinked') = Null
       /\ directLinkedAnnotationId(directLinked') = Null
       /\ directLinkedGroupFetchFailed(directLinked') =
            directLinkedGroupFetchFailed(directLinked)]_vars

C2_Witness ==
  /\ lastAction.type = "CLEAR_DIRECT_LINKED_IDS"
  /\ directLinkedGroupFetchFailed(directLinked) = TRUE
  /\ directLinkedGroupId(directLinked) = Null
  /\ directLinkedAnnotationId(directLinked) = Null

\* C3: before any action, each ID equals its setting, or null when the
\* setting is absent or empty, and the fetch-failed flag is false.
C3_InitialState ==
  lastAction = InitAction =>
    LET g == Get(settings, "group")
        a == Get(settings, "annotations")
    IN  /\ directLinkedGroupId(directLinked) =
             (IF g \in {Undefined, ""} THEN Null ELSE g)
        /\ directLinkedAnnotationId(directLinked) =
             (IF a \in {Undefined, ""} THEN Null ELSE a)
        /\ directLinkedGroupFetchFailed(directLinked) = FALSE

C3_Witness ==
  /\ lastAction = InitAction
  /\ Get(settings, "group") \in GroupIds
  /\ "annotations" \notin DOMAIN settings
  /\ directLinkedGroupId(directLinked) = settings.group
  /\ directLinkedAnnotationId(directLinked) = Null

\* C4: a setDirectLinkedGroupFetchFailed step makes the flag true and a
\* clearDirectLinkedGroupFetchFailed step makes it false; neither changes
\* the two IDs.
C4_FetchFailedFlag ==
  [][/\ setDirectLinkedGroupFetchFailed =>
          directLinkedGroupFetchFailed(directLinked') = TRUE
     /\ clearDirectLinkedGroupFetchFailed =>
          directLinkedGroupFetchFailed(directLinked') = FALSE
     /\ (setDirectLinkedGroupFetchFailed \/ clearDirectLinkedGroupFetchFailed) =>
          /\ directLinkedGroupId(directLinked') = directLinkedGroupId(directLinked)
          /\ directLinkedAnnotationId(directLinked') =
               directLinkedAnnotationId(directLinked)]_vars

C4_Witness ==
  /\ lastAction.type = "UPDATE_DIRECT_LINKED_GROUP_FETCH_FAILED"
  /\ lastAction.directLinkedGroupFetchFailed = TRUE
  /\ directLinkedGroupFetchFailed(directLinked) = TRUE
  /\ directLinkedGroupId(directLinked) \in GroupIds
  /\ directLinkedAnnotationId(directLinked) \in AnnotationIds

\* C5: hasFetchedProfile is false initially, true after every updateProfile
\* (also one with the contents of the dummy profile), and never goes from
\* true to false.
C5_HasFetchedProfile ==
  /\ ~hasFetchedProfile(session)
  /\ [](lastAction.type = "UPDATE_PROFILE" => hasFetchedProfile(session))
  /\ [][hasFetchedProfile(session) => hasFetchedProfile(session')]_vars

C5_Witness ==
  /\ lastAction.type = "UPDATE_PROFILE"
  /\ Props(profile(session)) = Props(initialProfile)
  /\ hasFetchedProfile(session)

\* C6: isLoggedIn is false initially; after an updateProfile step it is true
\* exactly when the stored profile's userid is not null, and no other step
\* changes it.
C6_IsLoggedIn ==
  /\ ~isLoggedIn(session)
  /\ [][IF lastAction'.type = "UPDATE_PROFILE"
        THEN isLoggedIn(session') = (lastAction'.profile.userid # Null)
        ELSE isLoggedIn(session') = isLoggedIn(session)]_vars

C6_Witness ==
  /\ lastAction.type = "UPDATE_PROFILE"
  /\ lastAction.profile.userid = Null
  /\ nextRef > 2
  /\ ~isLoggedIn(session)

\* C7: no feature is enabled initially; after an updateProfile step a feature
\* is enabled exactly when the stored profile's features map holds true for
\* it, and no other step changes it.
C7_IsFeatureEnabled ==
  /\ \A f \in FeatureNames : ~isFeatureEnabled(session, f)
  /\ [][\A f \in FeatureNames :
          IF lastAction'.type = "UPDATE_PROFILE"
          THEN isFeatureEnabled(session', f) =
                 LET features == lastAction'.profile.features
                 IN  IF f \in DOMAIN features THEN features[f] ELSE FALSE
          ELSE isFeatureEnabled(session', f) = isFeatureEnabled(session, f)]_vars

C7_Witness ==
  /\ lastAction.type = "UPDATE_PROFILE"
  /\ nextRef > 2
  /\ DOMAIN lastAction.profile.features = {"f2"}
  /\ lastAction.profile.features["f2"] = FALSE
  /\ \A f \in FeatureNames : ~isFeatureEnabled(session, f)

\* C8: the profile selector returns the dummy profile until the first
\* updateProfile; after an updateProfile(p) step its properties are exactly
\* those of p, and no other step changes it.
C8_ProfileReplaced ==
  /\ [](nextRef = 1 => profile(session) = initialProfile)
  /\ [][IF lastAction'.type = "UPDATE_PROFILE"
        THEN Props(profile(session')) = lastAction'.profile
        ELSE profile(session') = profile(session)]_vars

C8_Witness ==
  /\ lastAction.type = "UPDATE_PROFILE"
  /\ nextRef > 2
  /\ "user_info" \notin DOMAIN profile(session)
  /\ Props(profile(session)) = lastAction.profile

\* C9: defaultAuthority is settings.authDomain, or the empty string when
\* settings or authDomain is missing, in every state (so no action alters it).
C9_DefaultAuthority ==
  defaultAuthority(session) =
    IF settings = UndefinedObject \/ Get(settings, "authDomain") \in {Undefined, Null}
    THEN ""
    ELSE settings.authDomain

C9_Witness ==
  /\ lastAction.type = "UPDATE_PROFILE"
  /\ Get(settings, "authDomain") \in AuthDomains
  /\ defaultAuthority(session) = settings.authDomain

\* C10: while the modal is mounted and no render or effect is outstanding,
\* body's overflow is 'hidden' if the modal is open and the value it had at
\* mount if the modal is hidden.
Settled == phase = "mounted" /\ ~renderDirty /\ pendingEffects = {}

C10_OverflowFollowsModal ==
  Settled => bodyOverflow = (IF isHidden THEN pageOverflow ELSE "hidden")

C10_Witness ==
  /\ Settled
  /\ isHidden
  /\ bus = <<"openNotebook", "closeNotebook">>
  /\ pageOverflow = "scroll"
  /\ bodyOverflow = "scroll"

\* C11: once the modal has been destroyed, body's overflow is the value it
\* had when the modal was mounted, also when the modal was open at that time.
C11_DestroyRestoresOverflow ==
  phase = "destroyed" => bodyOverflow = pageOverflow

C11_Witness ==
  /\ phase = "destroyed"
  /\ ~isHidden
  /\ ~renderedIsHidden
  /\ 2 \in effectsRun
  /\ bus = <<"openNotebook">>
  /\ originalDocumentOverflowStyle = "scroll"
  /\ bodyOverflow = "scroll"

====
